---- MODULE Spec2Model ----
(***************************************************************************)
(* Model of the api-eventbus-integration-demo CDK application.             *)
(*                                                                         *)
(* cdk/index.ts computes the stack name, the api base path and the common  *)
(* properties from environment variables and instantiates MainStack.       *)
(* cdk/lib/mainStack.ts declares the resources of the pipeline:            *)
(*   POST /events      -> EventBridge PutEvents (Source 'external')        *)
(*   POST /authorized  -> JWT authorizer -> PutEvents ('eventbus.forward') *)
(*   log rule          -> CloudWatch log group, dead-letter queue          *)
(*   forward rule      -> API destination (OAuth2 connection) -> POST      *)
(*                        /authorized, dead-letter queue                   *)
(* The resources are modelled as records holding the properties the source *)
(* sets; the actions are the steps the managed services take on them.      *)
(* A string built by a template literal is the sequence of its parts.      *)
(***************************************************************************)
EXTENDS Naturals, Integers, Sequences, FiniteSets, TLC

\* ------------------------------------------------------------------------
\* Bounds of the model
\* ------------------------------------------------------------------------
\* HTTP requests external callers send (both routes together)
MaxRequests == 2

\* Values of the environment variables the entry script reads
Environments == {"dev", "development", "prod", "test"}
Stages == {"dev", "prod", "blue", "green"}
Services == {"eventbus", "orders", "billing", "users"}

\* the environment the pipeline is run in
DeployedEnvs ==
    {[environment |-> "dev", stage |-> "blue", service |-> "eventbus"]}

VARIABLES
    env,        \* configFromEnv: [environment, stage, service]
    deployed,   \* TRUE once MainStack is constructed and deployed
    stackName,  \* index.ts stackName, the id MainStack is constructed with
    props,      \* the MainStackProps handed to MainStack
    resources,  \* logical ids of the resources the stack declares
    bus,        \* events on the event bus, in order of arrival
    cause,      \* per event: the HTTP request that published it
    logTask,    \* per event: delivery of the log rule's target
    fwdTask,    \* per event: delivery of the forward rule's target
    logs,       \* events written to the log group <stackName>-events
    dlq,        \* messages on the queue <stackName>-dlq
    nReq        \* requests sent by external callers so far

vars == <<env, deployed, stackName, props, resources, bus, cause, logTask,
          fwdTask, logs, dlq, nReq>>

\* ------------------------------------------------------------------------
\* cdk/index.ts
\* ------------------------------------------------------------------------
environmentName(e) ==
    IF e.environment = "development" THEN "dev" ELSE e.environment

prefix(e) ==
    IF environmentName(e) # e.stage
    THEN <<e.stage, "-", environmentName(e)>>
    ELSE <<environmentName(e)>>

commonProps(e) ==
    [environment |-> IF e.environment = "dev" THEN "development"
                     ELSE e.environment,
     service |-> e.service]

StackNameOf(e) == prefix(e) \o <<"-", commonProps(e).service>>

ApiBasePathOf(e) ==
    IF environmentName(e) = e.stage
    THEN <<e.service>>
    ELSE <<e.stage, "-", e.service>>

rateLimit == 300

\* the props of `new MainStack(app, stackName, {...commonProps, apiBasePath,
\* rateLimit})`; StackProps.stackName is not among them
MainStackProps(e) ==
    [environment |-> commonProps(e).environment,
     service |-> commonProps(e).service,
     apiBasePath |-> ApiBasePathOf(e),
     rateLimit |-> rateLimit,
     stackName |-> <<"undefined">>]

\* ------------------------------------------------------------------------
\* cdk/lib/mainStack.ts: the resources, as functions of the deployed stack
\* ------------------------------------------------------------------------
Arn(service, name) == <<"arn:aws:", service, ":">> \o name

userPool == [userPoolName |-> stackName,
             userPoolId |-> <<"pool/">> \o stackName,
             userPoolArn |-> Arn("cognito-idp", <<"userpool/">> \o stackName)]

domain == [userPool |-> userPool.userPoolId, domainName |-> stackName]

tokenEndpoint ==
    <<"https://">> \o domain.domainName \o <<".auth.amazoncognito.com/oauth2/token">>

identifier == "user"
scopeName == "secured"

resourceServer ==
    [identifier |-> identifier,
     userPool |-> userPool.userPoolId,
     userPoolResourceServerName |-> props.stackName,
     scopes |-> {scopeName}]

poolClient ==
    [userPoolClientName |-> stackName \o <<"-eventbus-integration">>,
     userPoolClientId |-> <<"client/">> \o stackName \o <<"-eventbus-integration">>,
     userPool |-> userPool.userPoolId,
     generateSecret |-> TRUE,
     flows |-> {"client_credentials"},
     scopes |-> {<<identifier, "/", scopeName>>}]

\* describeUserPoolClient(UserPoolId, ClientId).UserPoolClient.ClientSecret
poolClientSecret == <<"secret-of/">> \o poolClient.userPoolClientId

clientSecretParameter ==
    [parameterName |-> stackName \o <<"-app-client-secret">>,
     stringValue |-> poolClientSecret]

api == [apiName |-> stackName,
        apiId |-> <<"api/">> \o stackName,
        apiEndpoint |-> <<"https://">> \o stackName \o <<".execute-api">>]

loggingLogGroup == [logGroupName |-> stackName \o <<"-logging">>]

eventBus == [eventBusName |-> stackName,
             eventBusArn |-> Arn("events", <<"event-bus/">> \o stackName)]

\* mutant: the statement names every resource
integrationRole_anyResource ==
    [roleName |-> stackName \o <<"-api-integration-role">>,
     roleArn |-> Arn("iam", <<"role/">> \o stackName \o <<"-api-integration-role">>),
     assumedBy |-> "apigateway.amazonaws.com",
     policy |-> {[effect |-> "Allow",
                  actions |-> {"events:PutEvents"},
                  resources |-> {<<"*">>}]}]

integrationRole ==
    [roleName |-> stackName \o <<"-api-integration-role">>,
     roleArn |-> Arn("iam", <<"role/">> \o stackName \o <<"-api-integration-role">>),
     assumedBy |-> "apigateway.amazonaws.com",
     policy |-> {[effect |-> "Allow",
                  actions |-> {"events:PutEvents"},
                  resources |-> {eventBus.eventBusArn}]}]

eventbusIntegration ==
    [integrationSubtype |-> "EventBridge-PutEvents",
     credentialsArn |-> integrationRole.roleArn,
     requestParameters |->
        [Source |-> "external",
         DetailType |-> "api.request",
         Detail |-> "$request.body",
         EventBusName |-> eventBus.eventBusArn,
         Resources |-> Arn("apigateway", <<"/apis/">> \o api.apiId)]]

\* mutant: the JWT authorizer is attached to POST /events as well
eventsRoute_jwt ==
    [routeKey |-> "POST /events",
     target |-> "eventbus-integration",
     authorizationType |-> "JWT",
     authorizerId |-> "jwt-authorizer",
     authorizationScopes |-> {<<identifier, "/", scopeName>>}]

eventsRoute ==
    [routeKey |-> "POST /events",
     target |-> "eventbus-integration",
     authorizationType |-> "NONE",
     authorizerId |-> "none",
     authorizationScopes |-> {}]

\* mutant: the second integration republishes with the first one's Source
authorizedIntegration_sourceExternal ==
    [integrationSubtype |-> "EventBridge-PutEvents",
     credentialsArn |-> integrationRole.roleArn,
     requestParameters |->
        [Source |-> "external",
         DetailType |-> "api.request",
         Detail |-> "$request.body.detail",
         EventBusName |-> eventBus.eventBusArn,
         Resources |-> eventBus.eventBusArn]]

\* mutant: the second integration publishes its whole body as the Detail
authorizedIntegration_wholeBody ==
    [integrationSubtype |-> "EventBridge-PutEvents",
     credentialsArn |-> integrationRole.roleArn,
     requestParameters |->
        [Source |-> "eventbus.forward",
         DetailType |-> "api.request",
         Detail |-> "$request.body",
         EventBusName |-> eventBus.eventBusArn,
         Resources |-> eventBus.eventBusArn]]

authorizedIntegration ==
    [integrationSubtype |-> "EventBridge-PutEvents",
     credentialsArn |-> integrationRole.roleArn,
     requestParameters |->
        [Source |-> "eventbus.forward",
         DetailType |-> "api.request",
         Detail |-> "$request.body.detail",
         EventBusName |-> eventBus.eventBusArn,
         Resources |-> eventBus.eventBusArn]]

authorizer ==
    [authorizerId |-> "jwt-authorizer",
     type |-> "JWT",
     authorizerName |-> stackName,
     identitySource |-> "$request.header.Authorization",
     jwtIssuer |-> <<"https://cognito-idp.amazonaws.com/">> \o userPool.userPoolId,
     jwtAudience |-> {poolClient.userPoolClientId}]

\* mutant: the route requires no scope
authorizedRoute_noScopes ==
    [routeKey |-> "POST /authorized",
     target |-> "authorized-integration",
     authorizationType |-> "JWT",
     authorizerId |-> authorizer.authorizerId,
     authorizationScopes |-> {}]

authorizedRoute ==
    [routeKey |-> "POST /authorized",
     target |-> "authorized-integration",
     authorizationType |-> "JWT",
     authorizerId |-> authorizer.authorizerId,
     authorizationScopes |-> {<<identifier, "/", scopeName>>}]

logGroup == [logGroupName |-> stackName \o <<"-events">>]

logRule ==
    [ruleName |-> stackName \o <<"-log-all-events">>,
     ruleArn |-> Arn("events", <<"rule/">> \o stackName \o <<"-log-all-events">>),
     eventBus |-> eventBus.eventBusName,
     eventPattern |-> [source |-> {"external", "eventbus.forward"}],
     target |-> [kind |-> "CloudWatchLogGroup",
                 logGroupName |-> logGroup.logGroupName,
                 deadLetterQueue |-> Arn("sqs", stackName \o <<"-dlq">>)]]

\* the queue and its resource policy: the only statement is the one the
\* log rule's CloudWatchLogGroup target adds for its deadLetterQueue,
\* conditioned on aws:SourceArn being the log rule
deadLetterQueue ==
    [queueName |-> stackName \o <<"-dlq">>,
     queueArn |-> Arn("sqs", stackName \o <<"-dlq">>),
     policy |-> {[effect |-> "Allow",
                  principal |-> "events.amazonaws.com",
                  actions |-> {"sqs:SendMessage"},
                  sourceArn |-> logRule.ruleArn]}]

\* mutant: the connection asks for the bare scope name
connection_bareScope ==
    [authorizationType |-> "OAUTH_CLIENT_CREDENTIALS",
     name |-> <<props.environment, "-gentu-api">>,
     attrArn |-> Arn("events", <<"connection/", props.environment, "-gentu-api">>),
     ClientID |-> poolClient.userPoolClientId,
     ClientSecret |-> clientSecretParameter.stringValue,
     HttpMethod |-> "POST",
     AuthorizationEndpoint |-> tokenEndpoint,
     BodyParameters |-> [grant_type |-> "client_credentials",
                         scope |-> <<scopeName>>]]

connection ==
    [authorizationType |-> "OAUTH_CLIENT_CREDENTIALS",
     name |-> <<props.environment, "-gentu-api">>,
     attrArn |-> Arn("events", <<"connection/", props.environment, "-gentu-api">>),
     ClientID |-> poolClient.userPoolClientId,
     ClientSecret |-> clientSecretParameter.stringValue,
     HttpMethod |-> "POST",
     AuthorizationEndpoint |-> tokenEndpoint,
     BodyParameters |-> [grant_type |-> "client_credentials",
                         scope |-> <<identifier, "/", scopeName>>]]

apiDestination ==
    [name |-> props.stackName \o <<"-secure-api">>,
     attrArn |-> Arn("events", <<"api-destination/">> \o props.stackName \o <<"-secure-api">>),
     connectionArn |-> connection.attrArn,
     httpMethod |-> "POST",
     invocationEndpoint |-> api.apiEndpoint \o <<"/authorized">>,
     invocationRateLimitPerSecond |-> props.rateLimit]

forwardRole ==
    [roleName |-> stackName \o <<"-api-destination-role">>,
     roleArn |-> Arn("iam", <<"role/">> \o stackName \o <<"-api-destination-role">>),
     assumedBy |-> "events.amazonaws.com",
     policy |-> {[effect |-> "Allow",
                  actions |-> {"events:InvokeApiDestination"},
                  resources |-> {apiDestination.attrArn}]}]

\* mutant: the forward rule uses the log rule's pattern
forwardRule_allSources ==
    [ruleName |-> stackName \o <<"-forward">>,
     ruleArn |-> Arn("events", <<"rule/">> \o stackName \o <<"-forward">>),
     eventBus |-> eventBus.eventBusName,
     eventPattern |-> [source |-> {"external", "eventbus.forward"}],
     target |-> [id |-> stackName \o <<"-forward-request">>,
                 arn |-> apiDestination.attrArn,
                 roleArn |-> forwardRole.roleArn,
                 deadLetterArn |-> deadLetterQueue.queueArn]]

forwardRule ==
    [ruleName |-> stackName \o <<"-forward">>,
     ruleArn |-> Arn("events", <<"rule/">> \o stackName \o <<"-forward">>),
     eventBus |-> eventBus.eventBusName,
     eventPattern |-> [source |-> {"external"}],
     target |-> [id |-> stackName \o <<"-forward-request">>,
                 arn |-> apiDestination.attrArn,
                 roleArn |-> forwardRole.roleArn,
                 deadLetterArn |-> deadLetterQueue.queueArn]]

\* the physical names the stack gives its resources (the resource server's
\* name, props.stackName, is not set, so CDK names it by default)
ResourceNames ==
    {userPool.userPoolName, domain.domainName, poolClient.userPoolClientName,
     clientSecretParameter.parameterName, api.apiName,
     loggingLogGroup.logGroupName, eventBus.eventBusName,
     integrationRole.roleName, authorizer.authorizerName,
     logGroup.logGroupName, deadLetterQueue.queueName, logRule.ruleName,
     connection.name, apiDestination.name, forwardRole.roleName,
     forwardRule.ruleName}

\* logical ids of every construct MainStack.constructor creates
MainStackResources ==
    {"userpool", "userpool-domain", "resource-server", "client",
     "describe-userpool-client", "client-secret-parameter", "api",
     "logging-loggroup", "events", "integration-role", "eventbus-integration",
     "events-route", "authorized-integration", "jwt-authorizer",
     "authorized-route", "logs", "dlq", "log-rule", "api-connection",
     "api-destination", "forward-role", "forward-rule"}

\* ------------------------------------------------------------------------
\* The managed services, as far as the configuration above drives them
\* ------------------------------------------------------------------------
NoToken == [iss |-> <<"none">>, client_id |-> <<"none">>, scope |-> {}]

\* issuer of the tokens the stack's user pool signs
PoolIssuer == <<"https://cognito-idp.amazonaws.com/">> \o userPool.userPoolId

\* Cognito's token endpoint for the pool: a client_credentials grant for the
\* pool client, authenticated with its secret, for scopes it is allowed
IssueToken(endpoint, clientId, secret, grant, scope) ==
    IF /\ endpoint = tokenEndpoint
       /\ domain.userPool = poolClient.userPool
       /\ clientId = poolClient.userPoolClientId
       /\ poolClient.generateSecret
       /\ secret = poolClientSecret
       /\ grant \in poolClient.flows
       /\ scope \in poolClient.scopes
       /\ scope \in {<<resourceServer.identifier, "/", n>> :
                        n \in resourceServer.scopes}
    THEN [iss |-> PoolIssuer, client_id |-> clientId, scope |-> {scope}]
    ELSE NoToken

\* the token EventBridge obtains for the connection of the API destination
ConnectionToken ==
    IssueToken(connection.AuthorizationEndpoint, connection.ClientID,
               connection.ClientSecret, connection.BodyParameters.grant_type,
               connection.BodyParameters.scope)

\* API Gateway's route authorization: none, or the JWT authorizer (issuer,
\* audience against aud/client_id, and one of the route's scopes)
Authorize(route, token) ==
    \/ route.authorizationType = "NONE"
    \/ /\ route.authorizationType = "JWT"
       /\ route.authorizerId = authorizer.authorizerId
       /\ token.iss = authorizer.jwtIssuer
       /\ token.client_id \in authorizer.jwtAudience
       /\ \/ route.authorizationScopes = {}
          \/ route.authorizationScopes \cap token.scope # {}

\* API Gateway parameter mapping of the integration's Detail
CanResolve(expr, body) ==
    \/ expr = "$request.body"
    \/ expr = "$request.body.detail" /\ "detail" \in DOMAIN body

Resolve(expr, body) ==
    IF expr = "$request.body" THEN body ELSE body.detail

\* IAM: what a role's inline policy allows
Allowed(role, action, resource) ==
    \E s \in role.policy :
        /\ s.effect = "Allow"
        /\ action \in s.actions \/ "*" \in s.actions
        /\ resource \in s.resources \/ <<"*">> \in s.resources

\* the role a roleArn names
RoleOf(arn) ==
    IF arn = integrationRole.roleArn THEN integrationRole ELSE forwardRole

\* the PutEvents entry an EventBridge-PutEvents integration builds
Entry(integ, body) ==
    [source |-> integ.requestParameters.Source,
     detailType |-> integ.requestParameters.DetailType,
     detail |-> Resolve(integ.requestParameters.Detail, body),
     resources |-> integ.requestParameters.Resources,
     busName |-> integ.requestParameters.EventBusName]

\* a request to a route publishes iff it is authorized, its parameters
\* resolve, and the integration's role may put events on the named bus
Accepts(route, integ, token, body) ==
    /\ Authorize(route, token)
    /\ CanResolve(integ.requestParameters.Detail, body)
    /\ integ.requestParameters.EventBusName = eventBus.eventBusArn
    /\ RoleOf(integ.credentialsArn).assumedBy = "apigateway.amazonaws.com"
    /\ Allowed(RoleOf(integ.credentialsArn), "events:PutEvents",
               integ.requestParameters.EventBusName)

\* EventBridge rule matching on the event pattern
Matches(rule, e) ==
    /\ rule.eventBus = eventBus.eventBusName
    /\ e.busName = eventBus.eventBusArn
    /\ e.source \in rule.eventPattern.source

NewTask(rule, e) ==
    IF Matches(rule, e) THEN [state |-> "pending", rejected |-> FALSE]
    ELSE [state |-> "nomatch", rejected |-> FALSE]

\* the body the API destination posts: the whole event
Envelope(e) ==
    [source |-> e.source, detailType |-> e.detailType,
     detail |-> e.detail, resources |-> e.resources]

\* the queue's resource policy lets EventBridge send for this rule
QueueAllows(queue, ruleArn) ==
    \E s \in queue.policy :
        /\ s.effect = "Allow"
        /\ s.principal = "events.amazonaws.com"
        /\ "sqs:SendMessage" \in s.actions
        /\ s.sourceArn = ruleArn

\* the outcome of a delivery EventBridge gives up on: the dead-letter queue
\* if the queue lets the rule send, otherwise the event is lost
GiveUp(rule, queueArn) ==
    IF queueArn = deadLetterQueue.queueArn
       /\ QueueAllows(deadLetterQueue, rule.ruleArn)
    THEN "dlq" ELSE "dropped"

\* what external callers can send
CallerTokens ==
    {NoToken,
     [iss |-> PoolIssuer, client_id |-> poolClient.userPoolClientId,
      scope |-> {<<identifier, "/", scopeName>>}],
     [iss |-> PoolIssuer, client_id |-> poolClient.userPoolClientId,
      scope |-> {<<"user", "/", "other">>}],
     [iss |-> PoolIssuer, client_id |-> <<"client/other">>,
      scope |-> {<<identifier, "/", scopeName>>}],
     [iss |-> <<"https://cognito-idp.amazonaws.com/", "pool/other">>,
      client_id |-> poolClient.userPoolClientId,
      scope |-> {<<identifier, "/", scopeName>>}]}

CallerBodies == {[msg |-> "a"], [detail |-> [msg |-> "b"]]}

\* ------------------------------------------------------------------------
\* Initial states and actions
\* ------------------------------------------------------------------------
Idle ==
    /\ bus = <<>>
    /\ cause = <<>>
    /\ logTask = <<>>
    /\ fwdTask = <<>>
    /\ logs = {}
    /\ dlq = {}
    /\ nReq = 0

\* the entry script starts: the environment is read, nothing is constructed
EntryInit ==
    /\ env \in [environment : Environments, stage : Stages, service : Services]
    /\ deployed = FALSE
    /\ stackName = <<>>
    /\ props = [environment |-> "", service |-> "", apiBasePath |-> <<>>,
                rateLimit |-> 0, stackName |-> <<>>]
    /\ resources = {}
    /\ Idle

\* index.ts: new MainStack(app, stackName, {...commonProps, apiBasePath,
\* rateLimit}); MainStack.constructor declares the resources
Synth ==
    /\ ~deployed
    /\ deployed' = TRUE
    /\ stackName' = StackNameOf(env)
    /\ props' = MainStackProps(env)
    /\ resources' = MainStackResources
    /\ UNCHANGED <<env, bus, cause, logTask, fwdTask, logs, dlq, nReq>>

EntrySpec == EntryInit /\ [][Synth]_vars

\* the deployed stack, before any request
Init ==
    /\ env \in DeployedEnvs
    /\ deployed = TRUE
    /\ stackName = StackNameOf(env)
    /\ props = MainStackProps(env)
    /\ resources = MainStackResources
    /\ Idle

\* PutEvents on the bus: the event arrives and both rules are evaluated
Publish(e, c, tasks) ==
    /\ bus' = Append(bus, e)
    /\ cause' = Append(cause, c)
    /\ logTask' = Append(logTask, NewTask(logRule, e))
    /\ fwdTask' = Append(tasks, NewTask(forwardRule, e))

\* a caller sends POST /events
PostEvents(token, body) ==
    /\ deployed
    /\ nReq < MaxRequests
    /\ nReq' = nReq + 1
    /\ IF Accepts(eventsRoute, eventbusIntegration, token, body)
       THEN Publish(Entry(eventbusIntegration, body),
                    [route |-> eventsRoute.routeKey, body |-> body,
                     parent |-> 0],
                    fwdTask)
       ELSE UNCHANGED <<bus, cause, logTask, fwdTask>>
    /\ UNCHANGED <<env, deployed, stackName, props, resources, logs, dlq>>

\* a caller sends POST /authorized
PostAuthorized(token, body) ==
    /\ deployed
    /\ nReq < MaxRequests
    /\ nReq' = nReq + 1
    /\ IF Accepts(authorizedRoute, authorizedIntegration, token, body)
       THEN Publish(Entry(authorizedIntegration, body),
                    [route |-> authorizedRoute.routeKey, body |-> body,
                     parent |-> 0],
                    fwdTask)
       ELSE UNCHANGED <<bus, cause, logTask, fwdTask>>
    /\ UNCHANGED <<env, deployed, stackName, props, resources, logs, dlq>>

\* the log rule's target writes event i to the log group
LogDeliver(i) ==
    /\ logTask[i].state = "pending"
    /\ logTask' = [logTask EXCEPT ![i].state = "logged"]
    /\ logs' = logs \cup {i}
    /\ UNCHANGED <<env, deployed, stackName, props, resources, bus, cause,
                   fwdTask, dlq, nReq>>

\* EventBridge gives up on writing event i to the log group
LogFail(i) ==
    /\ logTask[i].state = "pending"
    /\ LET out == GiveUp(logRule, logRule.target.deadLetterQueue)
       IN /\ logTask' = [logTask EXCEPT ![i].state = out]
          /\ dlq' = IF out = "dlq"
                    THEN dlq \cup {[rule |-> logRule.ruleName, event |-> i]}
                    ELSE dlq
    /\ UNCHANGED <<env, deployed, stackName, props, resources, bus, cause,
                   fwdTask, logs, nReq>>

\* the forward rule's target invokes the API destination for event i: a
\* token from the connection, then POST <api endpoint>/authorized with the
\* event as the body; a call the API rejects is given up on
ForwardDeliver(i) ==
    /\ fwdTask[i].state = "pending"
    /\ LET body == Envelope(bus[i])
           ok == /\ forwardRule.target.arn = apiDestination.attrArn
                 /\ RoleOf(forwardRule.target.roleArn).assumedBy = "events.amazonaws.com"
                 /\ Allowed(RoleOf(forwardRule.target.roleArn),
                            "events:InvokeApiDestination", forwardRule.target.arn)
                 /\ apiDestination.connectionArn = connection.attrArn
                 /\ apiDestination.invocationEndpoint = api.apiEndpoint \o <<"/authorized">>
                 /\ apiDestination.httpMethod = "POST"
                 /\ Accepts(authorizedRoute, authorizedIntegration,
                            ConnectionToken, body)
           out == GiveUp(forwardRule, forwardRule.target.deadLetterArn)
       IN IF ok
          THEN /\ Publish(Entry(authorizedIntegration, body),
                          [route |-> authorizedRoute.routeKey, body |-> body,
                           parent |-> i],
                          [fwdTask EXCEPT ![i].state = "delivered"])
               /\ dlq' = dlq
          ELSE /\ fwdTask' = [fwdTask EXCEPT ![i] = [state |-> out, rejected |-> TRUE]]
               /\ dlq' = IF out = "dlq"
                         THEN dlq \cup {[rule |-> forwardRule.ruleName, event |-> i]}
                         ELSE dlq
               /\ UNCHANGED <<bus, cause, logTask>>
    /\ UNCHANGED <<env, deployed, stackName, props, resources, logs, nReq>>

\* EventBridge gives up on invoking the API destination for event i
\* (throttling, 5xx or timeouts until the retries are exhausted)
ForwardFail(i) ==
    /\ fwdTask[i].state = "pending"
    /\ LET out == GiveUp(forwardRule, forwardRule.target.deadLetterArn)
       IN /\ fwdTask' = [fwdTask EXCEPT ![i].state = out]
          /\ dlq' = IF out = "dlq"
                    THEN dlq \cup {[rule |-> forwardRule.ruleName, event |-> i]}
                    ELSE dlq
    /\ UNCHANGED <<env, deployed, stackName, props, resources, bus, cause,
                   logTask, logs, nReq>>

Delivery ==
    \E i \in 1..Len(bus) :
        LogDeliver(i) \/ LogFail(i) \/ ForwardDeliver(i) \/ ForwardFail(i)

Next ==
    \/ \E t \in CallerTokens, b \in CallerBodies : PostEvents(t, b)
    \/ \E t \in CallerTokens, b \in CallerBodies : PostAuthorized(t, b)
    \/ \E i \in 1..Len(bus) : LogDeliver(i)
    \/ \E i \in 1..Len(bus) : LogFail(i)
    \/ \E i \in 1..Len(bus) : ForwardDeliver(i)
    \/ \E i \in 1..Len(bus) : ForwardFail(i)

Spec == Init /\ [][Next]_vars

\* the managed services keep working on pending deliveries
FairSpec == Spec /\ WF_vars(Delivery)

\* ------------------------------------------------------------------------
\* Properties
\* ------------------------------------------------------------------------
Events == 1..Len(bus)
Range(f) == {f[k] : k \in DOMAIN f}
LastEvent(b) == b[Len(b)]

\* a JWT of the stack's user pool for the pool client with scope user/secured
ValidJwt(t) ==
    /\ t.iss = PoolIssuer
    /\ t.client_id = poolClient.userPoolClientId
    /\ <<"user", "/", "secured">> \in t.scope

\* length of the chain of events that ends in event i
RECURSIVE ChainLength(_)
ChainLength(i) ==
    IF cause[i].parent = 0 THEN 1 ELSE 1 + ChainLength(cause[i].parent)

\* C1: every POST /events request, whatever token the caller sends or omits,
\* publishes exactly one event on the stack's bus, with Source 'external',
\* DetailType 'api.request' and the request body as Detail.
C1_PostEventsPublishesOne ==
    [][\A t \in CallerTokens, b \in CallerBodies :
          PostEvents(t, b) =>
             /\ Len(bus') = Len(bus) + 1
             /\ SubSeq(bus', 1, Len(bus)) = bus
             /\ LastEvent(bus').source = "external"
             /\ LastEvent(bus').detailType = "api.request"
             /\ LastEvent(bus').detail = b
             /\ LastEvent(bus').busName = eventBus.eventBusArn]_vars

C1_Witness ==
    /\ nReq = 1
    /\ Len(bus) = 1
    /\ bus[1].source = "external"
    /\ bus[1].detail = cause[1].body

\* C2: the forward rule hands an event to the API destination, which posts
\* to <api endpoint>/authorized, exactly when the event's source is
\* 'external'; an 'eventbus.forward' event is never forwarded.
C2_ForwardOnlyExternal ==
    /\ forwardRule.target.arn = apiDestination.attrArn
    /\ apiDestination.httpMethod = "POST"
    /\ apiDestination.invocationEndpoint = api.apiEndpoint \o <<"/authorized">>
    /\ \A i \in Events :
          /\ (fwdTask[i].state # "nomatch") <=> (bus[i].source = "external")
          /\ bus[i].source = "eventbus.forward" =>
                \A j \in Events : cause[j].parent # i
          /\ cause[i].parent # 0 => bus[cause[i].parent].source = "external"

C2_Witness ==
    \E i, j \in Events :
        /\ bus[i].source = "external" /\ fwdTask[i].state = "delivered"
        /\ bus[j].source = "eventbus.forward" /\ fwdTask[j].state = "nomatch"
        /\ logTask[j].state = "logged"

\* C3: an 'eventbus.forward' event appears on the bus only in a POST
\* /authorized request that carries a valid JWT (issuer the user pool,
\* audience the pool client, scope user/secured); a POST /authorized request
\* without such a token publishes nothing.
C3_ForwardEventNeedsJwt ==
    [][/\ \A t \in CallerTokens, b \in CallerBodies :
             (PostAuthorized(t, b) /\ ~ValidJwt(t)) => bus' = bus
       /\ (Len(bus') > Len(bus) /\ LastEvent(bus').source = "eventbus.forward") =>
             \/ \E t \in CallerTokens, b \in CallerBodies :
                   ValidJwt(t) /\ PostAuthorized(t, b)
             \/ \E i \in Events : ValidJwt(ConnectionToken) /\ ForwardDeliver(i)]_vars

C3_Witness ==
    \E i \in Events :
        /\ bus[i].source = "eventbus.forward"
        /\ cause[i].parent = 0
        /\ cause[i].route = "POST /authorized"

\* C4: the connection's OAuth2 parameters name the token endpoint, the client
\* id and secret of the pool client that is the authorizer's only audience,
\* and the scope the client is allowed and the route requires; the token the
\* connection obtains passes the authorizer, and no forward invocation is
\* rejected.
C4_ConnectionSatisfiesAuthorizer ==
    /\ connection.authorizationType = "OAUTH_CLIENT_CREDENTIALS"
    /\ connection.AuthorizationEndpoint = tokenEndpoint
    /\ connection.BodyParameters.grant_type = "client_credentials"
    /\ connection.BodyParameters.grant_type \in poolClient.flows
    /\ connection.ClientID = poolClient.userPoolClientId
    /\ connection.ClientSecret = poolClientSecret
    /\ authorizer.jwtAudience = {poolClient.userPoolClientId}
    /\ authorizer.jwtIssuer = PoolIssuer
    /\ connection.BodyParameters.scope = <<"user", "/", "secured">>
    /\ connection.BodyParameters.scope \in poolClient.scopes
    /\ authorizedRoute.authorizationScopes = {connection.BodyParameters.scope}
    /\ ValidJwt(ConnectionToken)
    /\ Authorize(authorizedRoute, ConnectionToken)
    /\ \A i \in Events : ~fwdTask[i].rejected

C4_Witness ==
    \E i, j \in Events :
        /\ fwdTask[i].state = "delivered"
        /\ cause[j].parent = i

\* the actions and resources the roles are tried on
IamActions ==
    {"events:PutEvents", "events:InvokeApiDestination", "events:PutRule",
     "sqs:SendMessage", "logs:PutLogEvents"}

IamResources ==
    {eventBus.eventBusArn, Arn("events", <<"event-bus/default">>),
     apiDestination.attrArn, Arn("events", <<"api-destination/other">>),
     deadLetterQueue.queueArn, logRule.ruleArn}

\* C5: the role API Gateway assumes can do events:PutEvents on the stack's
\* event bus and nothing else; the role EventBridge assumes can do
\* events:InvokeApiDestination on the stack's API destination and nothing
\* else.
C5_RolesLeastPrivilege ==
    /\ integrationRole.assumedBy = "apigateway.amazonaws.com"
    /\ forwardRole.assumedBy = "events.amazonaws.com"
    /\ \A a \in IamActions, r \in IamResources :
          /\ Allowed(integrationRole, a, r) <=>
                (a = "events:PutEvents" /\ r = eventBus.eventBusArn)
          /\ Allowed(forwardRole, a, r) <=>
                (a = "events:InvokeApiDestination" /\ r = apiDestination.attrArn)

C5_Witness ==
    \E i, j \in Events :
        /\ bus[i].source = "external"
        /\ cause[j].parent = i
        /\ Allowed(integrationRole, "events:PutEvents", bus[i].busName)
        /\ Allowed(forwardRole, "events:InvokeApiDestination",
                   forwardRule.target.arn)

\* C6: the stack the smoke test constructs synthesises to a template with
\* no resource.
C6_SmokeTestTemplateEmpty ==
    deployed => resources = {}

\* C7: every delivery of the log rule and of the forward rule ends in its
\* target (the log group, POST /authorized) or on the dead-letter queue; no
\* event is lost.
C7_NoEventLost ==
    \A i \in Events :
        /\ bus[i].source \in {"external", "eventbus.forward"} =>
              logTask[i].state \in {"pending", "logged", "dlq"}
        /\ bus[i].source = "external" =>
              fwdTask[i].state \in {"pending", "delivered", "dlq"}
        /\ logTask[i].state = "dlq" =>
              [rule |-> logRule.ruleName, event |-> i] \in dlq
        /\ fwdTask[i].state = "dlq" =>
              [rule |-> forwardRule.ruleName, event |-> i] \in dlq

\* the other spelling of the development environment
Counterpart(e) ==
    [e EXCEPT !.environment = IF @ = "dev" THEN "development"
                              ELSE IF @ = "development" THEN "dev" ELSE @]

ShortName(e) ==
    IF e.environment \in {"dev", "development"} THEN "dev" ELSE e.environment

\* C8: 'dev' and 'development' give the same stack name, apiBasePath and
\* environment property ('development'); the stack name and apiBasePath
\* carry the '<stage>-' prefix exactly when the short environment name
\* differs from STAGE; resource names use the short form 'dev'.
C8_DevAndDevelopmentInterchangeable ==
    deployed =>
       /\ stackName = StackNameOf(Counterpart(env))
       /\ props.apiBasePath = ApiBasePathOf(Counterpart(env))
       /\ props.environment = MainStackProps(Counterpart(env)).environment
       /\ env.environment \in {"dev", "development"} =>
             props.environment = "development"
       /\ IF ShortName(env) = env.stage
          THEN /\ stackName = <<ShortName(env), "-", env.service>>
               /\ props.apiBasePath = <<env.service>>
          ELSE /\ stackName = <<env.stage, "-", ShortName(env), "-", env.service>>
               /\ props.apiBasePath = <<env.stage, "-", env.service>>
       /\ env.environment \in {"dev", "development"} =>
             \A n \in ResourceNames :
                 "dev" \in Range(n) /\ "development" \notin Range(n)

\* C9: the relay cannot loop: a chain of events has at most two members, an
\* 'eventbus.forward' event is not forwarded, the bus holds at most two
\* events per request, and the pipeline comes to rest with no forward
\* pending.
C9_RelayTerminates ==
    /\ [](\A i \in Events :
             /\ ChainLength(i) <= 2
             /\ bus[i].source = "eventbus.forward" => fwdTask[i].state = "nomatch")
    /\ [](Len(bus) <= 2 * nReq)
    /\ <>[](\A i \in Events : fwdTask[i].state # "pending")

C9_Witness ==
    /\ nReq = MaxRequests
    /\ \E i \in Events : ChainLength(i) = 2
    /\ \A i \in Events : fwdTask[i].state # "pending"

\* C10: the 'eventbus.forward' event made from an 'external' event has the
\* original request body as its Detail and the same DetailType; the two
\* differ in Source and Resources.
C10_ForwardPreservesPayload ==
    \A j \in Events :
        cause[j].parent # 0 =>
           LET p == cause[j].parent
           IN /\ cause[p].route = "POST /events"
              /\ bus[p].detail = cause[p].body
              /\ cause[j].body = Envelope(bus[p])
              /\ bus[j].detail = cause[p].body
              /\ bus[j].detailType = "api.request"
              /\ bus[j].detailType = bus[p].detailType
              /\ bus[j].busName = bus[p].busName
              /\ bus[j].source = "eventbus.forward"
              /\ bus[p].source = "external"
              /\ bus[j].resources # bus[p].resources

C10_Witness ==
    \E j \in Events :
        /\ cause[j].parent # 0
        /\ bus[j].detail = [detail |-> [msg |-> "b"]]

====
